---- MODULE Spec2Model ----
(***************************************************************************)
(* The mock ledger (MockBlockchainState), the staking contract built on it *)
(* (MockStakingContract), a transaction object (MockTransaction), the gas  *)
(* optimizer (GasOptimizer), the auto-compound strategies, the reward      *)
(* monitor (RewardMonitor) and the operation layer's unstake_tokens, as a  *)
(* state machine.                                                          *)
(*                                                                         *)
(* Amounts.  The code computes with decimal.Decimal in ETH.  Here every    *)
(* amount is an integer number of micro-ETH (ETH == 10^6), the finest unit *)
(* in which the contract's 1000 ETH opening balance still fits a machine   *)
(* integer.  Decimal's quotient is rounded to the context precision; here  *)
(* the quotient of get_rewards is rounded down to the micro-ETH.  Gas      *)
(* prices are held in gwei, the unit set_gas_price receives: the factor    *)
(* 10^9 it multiplies by is folded into the divisor of the gas cost.       *)
(*                                                                         *)
(* Account.staked_amount, Account.rewards and Account.last_stake_time are  *)
(* written by the ledger's own stake/unstake/claim_rewards only, which the *)
(* contract never calls, so staked_amount stays 0 on every account and the *)
(* reward loop of mine_block (mock_state.py 259-264) does nothing.         *)
(***************************************************************************)
EXTENDS Integers, Sequences, FiniteSets, TLC

VARIABLES accounts, transactions, gas_price, current_block,
          stakes, stake_block, rewards, nonces, apr, previous_apr, result,
          now, last_block_time, transaction,
          price_history, last_check, favorable,
          last_compound, recent_gas_prices, evaluations, decision,
          gas_percentile, compound_history, monitor_last_check, returned,
          arguments

vars == <<accounts, transactions, gas_price, current_block,
          stakes, stake_block, rewards, nonces, apr, previous_apr, result,
          now, last_block_time, transaction,
          price_history, last_check, favorable,
          last_compound, recent_gas_prices, evaluations, decision,
          gas_percentile, compound_history, monitor_last_check, returned,
          arguments>>

ledger == <<accounts, transactions, gas_price, current_block>>
contract == <<stakes, stake_block, rewards, nonces, apr, previous_apr>>

\* the wall clock datetime.now() reads, and the ledger's last_block_time
clock == <<now, last_block_time>>
\* GasOptimizer: its price history, last_check and the value it last returned
optimizer == <<price_history, last_check, favorable>>
\* the strategies' own state, the number of evaluations the gas-optimized
\* strategy has made, and the CompoundDecision last returned
strategies == <<last_compound, recent_gas_prices, evaluations, decision,
                gas_percentile>>
\* RewardMonitor: its compound_history and last_check, and what its last
\* call returned ("True"/"False" from check_rewards; "None" or the status
\* of the formatted transaction from execute_compound), and the
\* min_rewards and max_gas_price arguments of its last execute_compound
monitor == <<compound_history, monitor_last_check, returned, arguments>>

----------------------------------------------------------------------------
(* Units and program constants *)

ETH == 10^6
GasDivisor == 10^3
GAS_LIMIT == 21000
ledger_gas_limit == 21000
blocks_per_year == 2628000
min_stake == ETH \div 10
\* a contract whose upper limit excludes the limit itself
max_stake_exclusive == 100 * ETH - 1
max_stake == 100 * ETH
ContractBalance == 1000 * ETH
DefaultGasPrice == 20
DefaultApr == 5
ContractAddr == "0x0"

----------------------------------------------------------------------------
(* Bounds and input sets (amounts in micro-ETH) *)

MaxBlock == 2
MaxNonce == 3
MaxTx == 2
MaxStaked == 105000000
MaxRewards == 500000
MaxTime == 3
MaxHistory == 5
MaxEvaluations == 4
MaxCompounds == 3

Users == {"a", "b"}
Stakers == {"a"}
Addrs == Users \cup {ContractAddr}
InitialBalances == {2 * ETH, 250 * ETH}
StakeAmounts == {ETH \div 20, ETH \div 10, 100 * ETH, 101 * ETH}
UnstakeAmounts == {0 - 40 * ETH, 0, 40 * ETH, 100 * ETH}
TransferAmounts == {3 * ETH}
RewardAmounts == {ETH \div 2}
GasPrices == {0, 20, 40}
\* the gas prices set while the contract is exercised
ContractGasPrices == {0, 20}

----------------------------------------------------------------------------
(* Python dict operations *)

EmptyDict == [k \in {} |-> 0]
Get(d, k, default) == IF k \in DOMAIN d THEN d[k] ELSE default
Put(d, k, v) == [x \in (DOMAIN d) \cup {k} |-> IF x = k THEN v ELSE d[x]]
Del(d, k) == [x \in (DOMAIN d) \ {k} |-> d[x]]

----------------------------------------------------------------------------
(* Transactions *)

None == 0 - 1
\* MockTransaction.error = None
NoError == "None"
\* no transaction object has been constructed yet
NoTransaction == [status |-> "absent"]

\* The caller's view of the last call: the operation, its arguments, the
\* error it raised ("none" when it returned), the gas cost of the transaction
\* it returned, and the balance and stake of addr read before the call.
Res(op, addr, amount, err, gas) ==
    [op |-> op, addr |-> addr, amount |-> amount, err |-> err, gas_cost |-> gas,
     pre_balance |-> IF addr \in DOMAIN accounts THEN accounts[addr].balance ELSE 0,
     pre_staked |-> Get(stakes, addr, 0)]

MockTransaction(from, to, value, gas_limit, nonce) ==
    [from_address |-> from, to_address |-> to, value |-> value,
     gas_limit |-> gas_limit, gas_price |-> gas_price, nonce |-> nonce,
     gas_used |-> None, status |-> "pending", error |-> NoError]

\* MockTransaction.__post_init__: the error it raises, "none" when it accepts
post_init(tx) ==
    IF tx.value < 0 THEN "negative_value"
    ELSE IF tx.nonce < 0 THEN "negative_nonce"
    ELSE IF tx.gas_price <= 0 THEN "gas_price_not_positive"
    ELSE IF tx.gas_limit <= 0 THEN "gas_limit_not_positive"
    ELSE "none"

\* MockTransaction.confirm(success=True): gas_used = int(gas_limit * 0.95)
confirm(tx) ==
    [tx EXCEPT !.status = "success", !.gas_used = (tx.gas_limit * 95) \div 100]

\* MockTransaction.confirm(success, error): no test of the current status
confirm_outcome(tx, success, error) ==
    IF success THEN confirm(tx)
    ELSE [tx EXCEPT !.status = "failed", !.error = error, !.gas_used = tx.gas_limit]

\* gas_used if set, else gas_limit; the ledger's own transaction class also
\* stores the value it used in gas_used
with_gas_used(tx) ==
    [tx EXCEPT !.gas_used = IF tx.gas_used = None THEN tx.gas_limit ELSE tx.gas_used]

\* gas * gas_price[wei] / 10^18 ETH  =  gas * gas_price[gwei] / 10^3 micro-ETH
get_gas_cost(tx) ==
    (with_gas_used(tx).gas_used * tx.gas_price) \div GasDivisor

----------------------------------------------------------------------------
(* Ledger: MockBlockchainState *)

Account(bal) == [balance |-> bal, nonce |-> 0]

\* a ledger that burns no gas: the sender is debited the value only
debit_value_only(accts, tx) ==
    [accts EXCEPT ![tx.from_address].balance = @ - tx.value]

\* the accounts after apply_transaction(tx): sender debited value + gas, then
\* recipient credited value; no funds check precedes the debit
debit(accts, tx) ==
    [accts EXCEPT ![tx.from_address].balance = @ - (tx.value + get_gas_cost(tx))]
credit(accts, tx) ==
    [accts EXCEPT ![tx.to_address].balance = @ + tx.value]
applied(accts, tx) == credit(debit(accts, tx), tx)

\* the transactions after apply_transaction(tx): self.transactions[tx.hash] = tx
stored(tx) == Append(transactions, tx)

create_account(address, bal) ==
    /\ IF address \in DOMAIN accounts
       THEN /\ result' = Res("create_account", address, bal, "exists", 0)
            /\ UNCHANGED accounts
       ELSE /\ accounts' = Put(accounts, address, Account(bal))
            /\ result' = Res("create_account", address, bal, "none", 0)
    /\ UNCHANGED <<transactions, gas_price, current_block>>
    /\ UNCHANGED contract
    /\ UNCHANGED <<clock, transaction, optimizer, strategies, monitor>>

set_gas_price(price) ==
    /\ gas_price' = price
    /\ result' = Res("set_gas_price", ContractAddr, price, "none", 0)
    /\ UNCHANGED <<accounts, transactions, current_block>>
    /\ UNCHANGED contract
    /\ UNCHANGED <<clock, transaction, optimizer, strategies, monitor>>

mine_block ==
    /\ current_block < MaxBlock
    /\ current_block' = current_block + 1
    /\ result' = Res("mine_block", ContractAddr, 0, "none", 0)
    /\ UNCHANGED <<accounts, transactions, gas_price>>
    /\ UNCHANGED contract
    /\ last_block_time' = now
    /\ UNCHANGED <<now, transaction, optimizer, strategies, monitor>>

transfer(from, to, amount) ==
    LET created == IF to \in DOMAIN accounts THEN accounts
                   ELSE Put(accounts, to, Account(0))
        tx == with_gas_used(MockTransaction(from, to, amount, ledger_gas_limit,
                                            IF from \in DOMAIN accounts
                                            THEN accounts[from].nonce ELSE 0))
        total_cost == amount + get_gas_cost(tx)
    IN  /\ Len(transactions) < MaxTx
        /\ IF from \notin DOMAIN accounts
           THEN /\ result' = Res("transfer", from, amount, "not_found", 0)
                /\ UNCHANGED <<accounts, transactions>>
           ELSE IF accounts[from].balance < total_cost
           THEN /\ accounts' = created
                /\ result' = Res("transfer", from, amount, "insufficient_balance",
                                 get_gas_cost(tx))
                /\ UNCHANGED transactions
           ELSE /\ accounts' = [applied(created, tx) EXCEPT ![from].nonce = @ + 1]
                /\ transactions' = stored(tx)
                /\ result' = Res("transfer", from, amount, "none", get_gas_cost(tx))
        /\ UNCHANGED <<gas_price, current_block>>
        /\ UNCHANGED contract
        /\ UNCHANGED <<clock, transaction, optimizer, strategies, monitor>>

\* apply_transaction called with a pending ledger transaction
apply_transaction(from, to, value) ==
    LET tx == with_gas_used(MockTransaction(from, to, value, ledger_gas_limit,
                                            IF from \in DOMAIN accounts
                                            THEN accounts[from].nonce ELSE 0))
    IN  /\ Len(transactions) < MaxTx
        /\ IF from \notin DOMAIN accounts \/ to \notin DOMAIN accounts
           THEN /\ result' = Res("apply_transaction", from, value, "not_found", 0)
                /\ UNCHANGED <<accounts, transactions>>
           ELSE /\ accounts' = applied(accounts, tx)
                /\ transactions' = stored(tx)
                /\ result' = Res("apply_transaction", from, value, "none",
                                 get_gas_cost(tx))
        /\ UNCHANGED <<gas_price, current_block>>
        /\ UNCHANGED contract
        /\ UNCHANGED <<clock, transaction, optimizer, strategies, monitor>>

----------------------------------------------------------------------------
(* Staking contract: MockStakingContract *)

\* apr is held in percent: Decimal("0.05") is 5 / AprScale
AprScale == 10^2

get_stake(address) == Get(stakes, address, 0)

\* rewards that grow only when stored: the accrual over mined blocks is left out
get_rewards_stored_only(address) == Get(rewards, address, 0)

get_rewards(address) ==
    LET base_rewards == Get(rewards, address, 0)
        blocks_passed == current_block - Get(stake_block, address, current_block)
    IN  IF address \notin DOMAIN stakes THEN base_rewards
        ELSE base_rewards
             + (stakes[address] * apr * blocks_passed) \div (AprScale * blocks_per_year)

\* _get_next_nonce: the value returned, and the counters it leaves behind
get_next_nonce(address) == Get(nonces, address, 0)
next_nonces(address) == Put(nonces, address, Get(nonces, address, 0) + 1)

\* the stake entry after stake(address, amount)
staked_more(address, amount) ==
    Put(stakes, address, Get(stakes, address, 0) + amount)

\* an unstake that keeps the entry of a fully unstaked address, at zero
staked_less_kept(address, amount) ==
    [stakes EXCEPT ![address] = @ - amount]

\* the stake entries after unstake(address, amount): removed at zero
staked_less(address, amount) ==
    IF stakes[address] - amount = 0 THEN Del(stakes, address)
    ELSE [stakes EXCEPT ![address] = @ - amount]

\* an unstake that never gives the unstaked amount back
refunded_nothing(accts, address, amount) == accts

\* unstake line 231: the unstaked amount is added back to the balance
refunded(accts, address, amount) ==
    [accts EXCEPT ![address].balance = @ + amount]

stake(address, amount) ==
    LET tx == MockTransaction(address, ContractAddr, amount, GAS_LIMIT,
                              get_next_nonce(address))
        ctx == confirm(tx)
    IN  /\ Get(nonces, address, 0) < MaxNonce
        /\ Len(transactions) < MaxTx
        /\ Get(stakes, address, 0) + amount <= MaxStaked
        /\ IF amount < min_stake
           THEN /\ result' = Res("stake", address, amount, "min_stake", 0)
                /\ UNCHANGED <<accounts, transactions, stakes, stake_block, nonces>>
           ELSE IF amount > max_stake
           THEN /\ result' = Res("stake", address, amount, "max_stake", 0)
                /\ UNCHANGED <<accounts, transactions, stakes, stake_block, nonces>>
           ELSE IF address \notin DOMAIN accounts
           THEN /\ result' = Res("stake", address, amount, "not_found", 0)
                /\ UNCHANGED <<accounts, transactions, stakes, stake_block, nonces>>
           ELSE IF post_init(tx) # "none"
           THEN /\ nonces' = next_nonces(address)
                /\ result' = Res("stake", address, amount, post_init(tx), 0)
                /\ UNCHANGED <<accounts, transactions, stakes, stake_block>>
           ELSE /\ nonces' = next_nonces(address)
                /\ accounts' = applied(accounts, ctx)
                /\ transactions' = stored(ctx)
                /\ stakes' = staked_more(address, amount)
                /\ stake_block' = Put(stake_block, address, current_block)
                /\ result' = Res("stake", address, amount, "none", get_gas_cost(ctx))
        /\ UNCHANGED <<gas_price, current_block, rewards, apr, previous_apr>>
        /\ UNCHANGED <<clock, transaction, optimizer, strategies, monitor>>

unstake(address, amount) ==
    LET tx == MockTransaction(address, ContractAddr, 0, GAS_LIMIT,
                              get_next_nonce(address))
        ctx == confirm(tx)
    IN  /\ Get(nonces, address, 0) < MaxNonce
        /\ Len(transactions) < MaxTx
        /\ Get(stakes, address, 0) - amount <= MaxStaked
        /\ IF address \notin DOMAIN stakes
           THEN /\ result' = Res("unstake", address, amount, "no_stake", 0)
                /\ UNCHANGED <<accounts, transactions, stakes, nonces>>
           ELSE IF amount > stakes[address]
           THEN /\ result' = Res("unstake", address, amount, "insufficient_stake", 0)
                /\ UNCHANGED <<accounts, transactions, stakes, nonces>>
           ELSE IF address \notin DOMAIN accounts
           THEN /\ result' = Res("unstake", address, amount, "not_found", 0)
                /\ UNCHANGED <<accounts, transactions, stakes, nonces>>
           ELSE IF post_init(tx) # "none"
           THEN /\ nonces' = next_nonces(address)
                /\ result' = Res("unstake", address, amount, post_init(tx), 0)
                /\ UNCHANGED <<accounts, transactions, stakes>>
           ELSE /\ nonces' = next_nonces(address)
                /\ accounts' = refunded(applied(accounts, ctx), address, amount)
                /\ transactions' = stored(ctx)
                /\ stakes' = staked_less(address, amount)
                /\ result' = Res("unstake", address, amount, "none", get_gas_cost(ctx))
        /\ UNCHANGED <<gas_price, current_block, stake_block, rewards, apr, previous_apr>>
        /\ UNCHANGED <<clock, transaction, optimizer, strategies, monitor>>

add_rewards(address, amount) ==
    /\ Get(rewards, address, 0) + amount <= MaxRewards
    /\ rewards' = Put(rewards, address, Get(rewards, address, 0) + amount)
    /\ result' = Res("add_rewards", address, amount, "none", 0)
    /\ UNCHANGED ledger
    /\ UNCHANGED <<stakes, stake_block, nonces, apr, previous_apr>>
    /\ UNCHANGED <<clock, transaction, optimizer, strategies, monitor>>

\* the accounts after claim_rewards pays r: the contract's balance is debited
\* and the claimant's credited directly, no transaction is applied
paid(address, r) ==
    [[accounts EXCEPT ![ContractAddr].balance = @ - r]
        EXCEPT ![address].balance = @ + r]

claim_rewards(address) ==
    LET r == get_rewards(address)
        tx == MockTransaction(ContractAddr, address, r, GAS_LIMIT,
                              get_next_nonce(address))
        ctx == confirm(tx)
    IN  /\ Get(nonces, address, 0) < MaxNonce
        /\ IF r = 0
           THEN /\ result' = Res("claim_rewards", address, r, "no_rewards", 0)
                /\ UNCHANGED <<accounts, rewards, nonces>>
           ELSE IF address \notin DOMAIN accounts
           THEN /\ result' = Res("claim_rewards", address, r, "not_found", 0)
                /\ UNCHANGED <<accounts, rewards, nonces>>
           ELSE IF post_init(tx) # "none"
           THEN /\ nonces' = next_nonces(address)
                /\ result' = Res("claim_rewards", address, r, post_init(tx), 0)
                /\ UNCHANGED <<accounts, rewards>>
           ELSE /\ nonces' = next_nonces(address)
                /\ accounts' = paid(address, r)
                /\ rewards' = Put(rewards, address, 0)
                /\ result' = Res("claim_rewards", address, r, "none", get_gas_cost(ctx))
        /\ UNCHANGED <<transactions, gas_price, current_block>>
        /\ UNCHANGED <<stakes, stake_block, apr, previous_apr>>
        /\ UNCHANGED <<clock, transaction, optimizer, strategies, monitor>>

\* the error contract.compound(address) raises, "none" when it returns
compound_error(address) ==
    LET r == get_rewards(address)
        tx == MockTransaction(address, ContractAddr, r, GAS_LIMIT,
                              get_next_nonce(address))
    IN  IF address \notin DOMAIN stakes THEN "no_stake"
        ELSE IF r <= 0 THEN "no_rewards"
        ELSE IF address \notin DOMAIN accounts THEN "not_found"
        ELSE post_init(tx)

\* what contract.compound(address) does to the contract's own state
compounded(address) ==
    LET r == get_rewards(address)
        err == compound_error(address)
    IN  IF err \in {"no_stake", "no_rewards", "not_found"}
        THEN UNCHANGED <<stakes, rewards, nonces>>
        ELSE IF err # "none"
        THEN /\ nonces' = next_nonces(address)
             /\ UNCHANGED <<stakes, rewards>>
        ELSE /\ nonces' = next_nonces(address)
             /\ stakes' = [stakes EXCEPT ![address] = @ + r]
             /\ rewards' = Put(rewards, address, 0)

compound(address) ==
    LET r == get_rewards(address)
        tx == MockTransaction(address, ContractAddr, r, GAS_LIMIT,
                              get_next_nonce(address))
        ctx == confirm(tx)
    IN  /\ Get(nonces, address, 0) < MaxNonce
        /\ Get(stakes, address, 0) + r <= MaxStaked
        /\ compounded(address)
        /\ result' = Res("compound", address, r, compound_error(address),
                         IF compound_error(address) = "none"
                         THEN get_gas_cost(ctx) ELSE 0)
        /\ UNCHANGED ledger
        /\ UNCHANGED <<stake_block, apr, previous_apr>>
        /\ UNCHANGED <<clock, transaction, optimizer, strategies, monitor>>

----------------------------------------------------------------------------
(* A transaction object in the hands of its creator *)

TxValues == {0 - ETH, 3 * ETH}
TxErrors == {"reverted", "out of gas"}

\* MockTransaction(from, to, value, nonce=0, gas_price=blockchain.gas_price)
new_transaction(from, to, value) ==
    LET tx == MockTransaction(from, to, value, GAS_LIMIT, 0)
    IN  /\ transaction = NoTransaction
        /\ IF post_init(tx) # "none"
           THEN /\ result' = Res("MockTransaction", from, value, post_init(tx), 0)
                /\ UNCHANGED transaction
           ELSE /\ transaction' = tx
                /\ result' = Res("MockTransaction", from, value, "none", 0)
        /\ UNCHANGED <<ledger, contract, clock, optimizer, strategies, monitor>>

\* transaction.confirm(success, error)
confirm_transaction(success, error) ==
    /\ transaction # NoTransaction
    /\ transaction' = confirm_outcome(transaction, success, error)
    /\ result' = Res("confirm", transaction.from_address, transaction.value, "none",
                     get_gas_cost(transaction'))
    /\ UNCHANGED <<ledger, contract, clock, optimizer, strategies, monitor>>

----------------------------------------------------------------------------
(* Ledger time.  Times are whole minutes since the ledger was constructed. *)

TimeSteps == {1, 2}

\* blockchain.last_block_time += timedelta(minutes=dt)
advance_time(dt) ==
    /\ last_block_time + dt <= MaxTime
    /\ last_block_time' = last_block_time + dt
    /\ result' = Res("advance_time", ContractAddr, dt, "none", 0)
    /\ UNCHANGED <<ledger, contract, now, transaction, optimizer, strategies, monitor>>

----------------------------------------------------------------------------
(* GasOptimizer(blockchain, window_size=2, min_window_size=1) *)

window_size == 2
min_window_size == 1

Sample(t, price) == [time |-> t, price |-> price]
GasWindow(start_time, end_time, total, count) ==
    [start_time |-> start_time, end_time |-> end_time, total |-> total, count |-> count]
NoWindow == [start_time |-> None]

RECURSIVE sum_prices(_)
sum_prices(h) == IF h = << >> THEN 0 ELSE h[1].price + sum_prices(Tail(h))

\* price <= avg_price and price > avg_price, with avg_price = sum / len: the
\* quotient is compared by cross-multiplication
at_or_below_average(price, h) == price * Len(h) <= sum_prices(h)
above_average(price, h) == price * Len(h) > sum_prices(h)

\* a retention test that also drops the sample exactly window_size old
in_window_strictly(t, cutoff) == t > cutoff

\* line 73: t >= cutoff
in_window(t, cutoff) == t >= cutoff

\* a span test that rejects a run of exactly min_window_size minutes
qualifies_strictly(window_start, window_end) ==
    window_end - window_start > min_window_size

\* lines 120 and 136: (window_end - window_start) in minutes >= min_window_size
qualifies(window_start, window_end) ==
    window_end - window_start >= min_window_size

\* the GasWindow of h[start_idx .. last_idx], avg_gas_price held as total / count
window_of(h, start_idx, last_idx) ==
    GasWindow(h[start_idx].time, h[last_idx].time,
              sum_prices(SubSeq(h, start_idx, last_idx)), last_idx - start_idx + 1)

\* the loop of lines 111-129 from index i on, then the final window of
\* lines 132-144; start_idx = None while no run is open
RECURSIVE scan_windows(_, _, _, _)
scan_windows(h, i, start_idx, windows) ==
    IF i > Len(h)
    THEN IF start_idx # None /\ qualifies(h[start_idx].time, h[Len(h)].time)
         THEN Append(windows, window_of(h, start_idx, Len(h)))
         ELSE windows
    ELSE IF at_or_below_average(h[i].price, h)
    THEN scan_windows(h, i + 1, IF start_idx = None THEN i ELSE start_idx, windows)
    ELSE IF start_idx # None
    THEN scan_windows(h, i + 1, None,
                      IF qualifies(h[start_idx].time, h[i - 1].time)
                      THEN Append(windows, window_of(h, start_idx, i - 1))
                      ELSE windows)
    ELSE scan_windows(h, i + 1, None, windows)

\* w.avg_gas_price < v.avg_gas_price
lower_average(w, v) == w.total * v.count < v.total * w.count

\* min(windows, key=avg_gas_price): the first window of the lowest average
RECURSIVE min_window(_, _)
min_window(best, windows) ==
    IF windows = << >> THEN best
    ELSE min_window(IF lower_average(windows[1], best) THEN windows[1] ELSE best,
                    Tail(windows))

find_optimal_window(h) ==
    LET windows == scan_windows(h, 1, None, << >>)
    IN  IF Len(h) < 2 \/ windows = << >> THEN NoWindow
        ELSE min_window(windows[1], Tail(windows))

\* the price history once the current sample is appended and the samples
\* older than the cutoff are dropped
sampled(h) ==
    LET cutoff == last_block_time - window_size
    IN  SelectSeq(Append(h, Sample(last_block_time, gas_price)),
                  LAMBDA sample : in_window(sample.time, cutoff))

\* the value check_gas_price returns on the updated history
in_optimal_window(history) ==
    LET current_price == gas_price
        window == find_optimal_window(history)
    IN  IF Len(history) = 1 THEN TRUE
        ELSE IF above_average(current_price, history) THEN FALSE
        ELSE IF window = NoWindow THEN TRUE
        ELSE window.start_time <= last_block_time
             /\ last_block_time <= window.end_time

check_gas_price ==
    LET current_price == gas_price
        history == sampled(price_history)
    IN  /\ Len(price_history) < MaxHistory
        /\ price_history' = history
        /\ last_check' = last_block_time
        /\ favorable' = in_optimal_window(history)
        /\ result' = Res("check_gas_price", ContractAddr, current_price, "none", 0)
        /\ UNCHANGED <<ledger, contract, clock, transaction, strategies, monitor>>

----------------------------------------------------------------------------
(* Auto-compound strategies.  ThresholdStrategy reads get_gas_price(), in  *)
(* gwei; TimeBasedStrategy and GasOptimizedStrategy read the ledger's      *)
(* gas_price attribute, in wei.  gas_price is held in gwei here, so the    *)
(* instances are ThresholdStrategy(max_gas_price=20) and, for the other    *)
(* two, max_gas_price=20 * 10^9: all three compare with 20 gwei.           *)

min_reward_threshold == ETH \div 2
max_gas_price == 20
compound_interval == 2
gas_window == 3
\* gas_percentile: float = 25.0, the constructor's default
default_gas_percentile == 25

\* position.rewards of the StakingPosition passed in
PositionRewards == {ETH \div 4, ETH \div 2, ETH}

CompoundDecision(should_compound, reason) ==
    [should_compound |-> should_compound, reason |-> reason]

\* a gas test that also refuses a price equal to the maximum
gas_too_high_or_equal(current_gas) == current_gas >= max_gas_price

\* current_gas > self.max_gas_price
gas_too_high(current_gas) == current_gas > max_gas_price

\* position.rewards < self.min_reward_threshold
rewards_too_low(position_rewards) == position_rewards < min_reward_threshold

\* the CompoundDecision ThresholdStrategy.should_compound returns
ThresholdStrategy_decision(position_rewards) ==
    LET current_gas == gas_price
    IN  IF gas_too_high(current_gas)
        THEN CompoundDecision(FALSE, "Gas price exceeds threshold")
        ELSE IF rewards_too_low(position_rewards)
        THEN CompoundDecision(FALSE, "Rewards below threshold")
        ELSE CompoundDecision(TRUE, "Rewards exceed threshold and gas price is acceptable")

ThresholdStrategy_should_compound(position_rewards) ==
    /\  /\ decision' = ThresholdStrategy_decision(position_rewards)
        /\ result' = Res("ThresholdStrategy.should_compound", ContractAddr,
                         position_rewards, "none", 0)
        /\ UNCHANGED <<last_compound, recent_gas_prices, evaluations, gas_percentile>>
        /\ UNCHANGED <<ledger, contract, clock, transaction, optimizer, monitor>>

\* an interval test that asks for more than compound_interval
interval_exceeded(current_time) ==
    last_compound = None \/ current_time - last_compound > compound_interval

\* self.last_compound is None or current_time - self.last_compound >= self.compound_interval
interval_reached(current_time) ==
    last_compound = None \/ current_time - last_compound >= compound_interval

TimeBasedStrategy_should_compound(position_rewards) ==
    LET current_time == last_block_time
        current_gas == gas_price
    IN  /\ IF gas_too_high(current_gas)
           THEN /\ decision' = CompoundDecision(FALSE, "Gas price exceeds maximum")
                /\ UNCHANGED last_compound
           ELSE IF rewards_too_low(position_rewards)
           THEN /\ decision' = CompoundDecision(FALSE, "Rewards below threshold")
                /\ UNCHANGED last_compound
           ELSE IF interval_reached(current_time)
           THEN /\ last_compound' = current_time
                /\ decision' = CompoundDecision(TRUE, "Time interval reached with favorable conditions")
           ELSE /\ decision' = CompoundDecision(FALSE, "Waiting until next compound interval")
                /\ UNCHANGED last_compound
        /\ result' = Res("TimeBasedStrategy.should_compound", ContractAddr,
                         position_rewards, "none", 0)
        /\ UNCHANGED <<recent_gas_prices, evaluations, gas_percentile>>
        /\ UNCHANGED <<ledger, contract, clock, transaction, optimizer, monitor>>

\* a history that drops its newest sample when it is full
evicted_newest(prices) ==
    IF Len(prices) > gas_window THEN SubSeq(prices, 1, Len(prices) - 1) ELSE prices

\* if len(self.recent_gas_prices) > self.gas_window: self.recent_gas_prices.pop(0)
evicted(prices) ==
    IF Len(prices) > gas_window THEN Tail(prices) ELSE prices

\* sorted(prices)
RECURSIVE insert_sorted(_, _)
insert_sorted(x, sorted_prices) ==
    IF sorted_prices = << >> THEN <<x>>
    ELSE IF x <= sorted_prices[1] THEN <<x>> \o sorted_prices
    ELSE <<sorted_prices[1]>> \o insert_sorted(x, Tail(sorted_prices))
RECURSIVE sorted(_)
sorted(prices) ==
    IF prices = << >> THEN << >> ELSE insert_sorted(prices[1], sorted(Tail(prices)))

\* int(len(sorted_prices) * self.gas_percentile / 100), as a Python index
threshold_index(sorted_prices) == (Len(sorted_prices) * gas_percentile) \div 100

Min(a, b) == IF a <= b THEN a ELSE b

\* the percentiles handed to the constructor
GasPercentiles == {0 - 1, 0, 25, 100, 101}

\* GasOptimizedStrategy(gas_percentile=percentile, ...): a new strategy
\* with an empty history takes the place of the old one, or ValueError
GasOptimizedStrategy_init(percentile) ==
    /\ IF ~(0 <= percentile /\ percentile <= 100)
       THEN /\ result' = Res("GasOptimizedStrategy", ContractAddr, percentile,
                             "ValueError", 0)
            /\ UNCHANGED <<gas_percentile, recent_gas_prices, evaluations>>
       ELSE /\ gas_percentile' = percentile
            /\ recent_gas_prices' = << >>
            /\ evaluations' = 0
            /\ result' = Res("GasOptimizedStrategy", ContractAddr, percentile,
                             "none", 0)
    /\ UNCHANGED <<last_compound, decision>>
    /\ UNCHANGED <<ledger, contract, clock, transaction, optimizer, monitor>>

\* sorted_prices[threshold_index] raises IndexError
index_out_of_range(sorted_prices) ==
    threshold_index(sorted_prices) >= Len(sorted_prices)

GasOptimizedStrategy_should_compound(position_rewards) ==
    LET current_gas == gas_price
        prices == evicted(Append(recent_gas_prices, current_gas))
        sorted_prices == sorted(prices)
        gas_threshold == Min(sorted_prices[threshold_index(sorted_prices) + 1],
                             max_gas_price)
    IN  /\ evaluations < MaxEvaluations
        /\ evaluations' = evaluations + 1
        /\ recent_gas_prices' = prices
        /\ IF Len(prices) < gas_window
           THEN /\ decision' = CompoundDecision(FALSE, "Building gas price history")
                /\ result' = Res("GasOptimizedStrategy.should_compound",
                                 ContractAddr, position_rewards, "none", 0)
           ELSE IF rewards_too_low(position_rewards)
           THEN /\ decision' = CompoundDecision(FALSE, "Rewards below threshold")
                /\ result' = Res("GasOptimizedStrategy.should_compound",
                                 ContractAddr, position_rewards, "none", 0)
           ELSE IF index_out_of_range(sorted_prices)
           THEN /\ UNCHANGED decision
                /\ result' = Res("GasOptimizedStrategy.should_compound",
                                 ContractAddr, position_rewards, "IndexError", 0)
           ELSE /\ decision' =
                     IF current_gas > gas_threshold
                     THEN CompoundDecision(FALSE, "Waiting for gas price to drop")
                     ELSE CompoundDecision(TRUE, "Gas price below percentile")
                /\ result' = Res("GasOptimizedStrategy.should_compound",
                                 ContractAddr, position_rewards, "none", 0)
        /\ UNCHANGED <<last_compound, gas_percentile>>
        /\ UNCHANGED <<ledger, contract, clock, transaction, optimizer, monitor>>

----------------------------------------------------------------------------
(* RewardMonitor(address, strategy, blockchain, contract) with the         *)
(* ThresholdStrategy above as its strategy.  Its gas optimizer is the one  *)
(* modelled above (the monitor builds it with window_size 60 and           *)
(* min_window_size 5; the model keeps the smaller window).                 *)
(* execute_compound compares the ledger's gas_price attribute, in wei,     *)
(* with a maximum in wei.  A maximum of m wei is held as m \div 10^9 whole *)
(* gwei: for a ledger price of g gwei, g * 10^9 > m iff g > m \div 10^9.   *)

WeiPerGwei == 10^9

\* balance and stake of the monitored accounts
MonitorBalances == {250 * ETH}
MonitorStakes == {100 * ETH}
\* the ledger gas prices execute_compound meets, in gwei
MonitorGasPrices == {20, 40}

\* min_rewards: None, or an override
MinRewardsOverrides == {None, ETH}
\* max_gas_price: None, or an override of 20 * 10^9 wei (held in gwei)
MaxGasPriceOverrides == {None, 20}

NoArguments == [min_rewards |-> None, max_gas_price |-> None]

\* a rewards test that also refuses rewards equal to the minimum
rewards_below_or_equal(position_rewards, min_rewards) == position_rewards <= min_rewards

\* position.rewards < self.strategy.min_reward_threshold; rewards < min_rewards
rewards_below(position_rewards, min_rewards) == position_rewards < min_rewards

\* a gas test that lets every price through
gas_price_never_above(max_gas_price_gwei) == FALSE

\* gas_price > max_gas_price, the ledger's price against whole gwei
gas_price_above(max_gas_price_gwei) == gas_price > max_gas_price_gwei

\* min_rewards if given, else self.strategy.min_reward_threshold
effective_min_rewards(min_rewards) ==
    IF min_rewards = None THEN min_reward_threshold ELSE min_rewards

\* max_gas_price if given, else self.strategy.max_gas_price, which the
\* comparison takes as wei
effective_max_gas_price(max_gas_price_gwei) ==
    IF max_gas_price_gwei = None THEN max_gas_price \div WeiPerGwei
    ELSE max_gas_price_gwei

check_rewards(address) ==
    LET position_rewards == get_rewards(address)
        history == sampled(price_history)
    IN  /\ monitor_last_check' = last_block_time
        /\ IF rewards_below(position_rewards, min_reward_threshold)
           THEN /\ returned' = "False"
                /\ UNCHANGED optimizer
           ELSE /\ Len(price_history) < MaxHistory
                /\ price_history' = history
                /\ last_check' = last_block_time
                /\ favorable' = in_optimal_window(history)
                /\ returned' = IF in_optimal_window(history) THEN "True" ELSE "False"
        /\ result' = Res("check_rewards", address, position_rewards, "none", 0)
        /\ UNCHANGED <<compound_history, arguments>>
        /\ UNCHANGED <<ledger, contract, clock, transaction, strategies>>

\* gas_used=Decimal("100000")
standard_gas_used == 100000

CompoundEvent(timestamp, event_rewards, event_gas_price, address) ==
    [timestamp |-> timestamp, rewards |-> event_rewards,
     gas_price |-> event_gas_price, gas_used |-> standard_gas_used,
     address |-> address]

\* a cost taken from the transaction's gas limit
CompoundEvent_gas_cost_of_limit(event) == event.gas_price * GAS_LIMIT

\* CompoundEvent.gas_cost, in gwei
CompoundEvent_gas_cost(event) == event.gas_price * event.gas_used

execute_compound(address, min_rewards, max_gas_price_gwei) ==
    LET r == get_rewards(address)
        err == compound_error(address)
    IN  /\ arguments' = [min_rewards |-> min_rewards,
                         max_gas_price |-> max_gas_price_gwei]
        /\ IF rewards_below(r, effective_min_rewards(min_rewards))
           THEN /\ returned' = "None"
                /\ result' = Res("execute_compound", address, r, "insufficient_rewards", 0)
                /\ UNCHANGED <<stakes, rewards, nonces, compound_history>>
           ELSE IF gas_price_above(effective_max_gas_price(max_gas_price_gwei))
           THEN /\ returned' = "None"
                /\ result' = Res("execute_compound", address, r, "gas_price_too_high", 0)
                /\ UNCHANGED <<stakes, rewards, nonces, compound_history>>
           ELSE /\ Get(nonces, address, 0) < MaxNonce
                /\ Get(stakes, address, 0) + r <= MaxStaked
                /\ Len(compound_history) < MaxCompounds
                /\ compounded(address)
                /\ result' = Res("execute_compound", address, r, err, 0)
                /\ IF err = "none"
                   THEN /\ compound_history' =
                             Append(compound_history,
                                    CompoundEvent(last_block_time, r, gas_price, address))
                        /\ returned' = "success"
                   ELSE /\ returned' = "None"
                        /\ UNCHANGED compound_history
        /\ UNCHANGED monitor_last_check
        /\ UNCHANGED ledger
        /\ UNCHANGED <<stake_block, apr, previous_apr>>
        /\ UNCHANGED <<clock, transaction, optimizer, strategies>>

RECURSIVE sum_rewards(_)
sum_rewards(history) ==
    IF history = << >> THEN 0 ELSE history[1].rewards + sum_rewards(Tail(history))
RECURSIVE sum_gas_cost(_)
sum_gas_cost(history) ==
    IF history = << >> THEN 0 ELSE CompoundEvent_gas_cost(history[1]) + sum_gas_cost(Tail(history))

\* get_compound_stats(address); average_gas_cost is the quotient num / den
get_compound_stats(address) ==
    LET history == SelectSeq(compound_history, LAMBDA e : e.address = address)
    IN  IF history = << >>
        THEN [total_compounds |-> 0, total_rewards_compounded |-> 0,
              total_gas_cost |-> 0, average_gas_cost |-> [num |-> 0, den |-> 1]]
        ELSE [total_compounds |-> Len(history),
              total_rewards_compounded |-> sum_rewards(history),
              total_gas_cost |-> sum_gas_cost(history),
              average_gas_cost |-> [num |-> sum_gas_cost(history), den |-> Len(history)]]

\* the APRs handed to set_apr, in percent
AprValues == {5, 6}

\* contract.set_apr(new_apr)
set_apr(new_apr) ==
    /\ previous_apr' = apr
    /\ apr' = new_apr
    /\ result' = Res("set_apr", ContractAddr, new_apr, "none", 0)
    /\ UNCHANGED ledger
    /\ UNCHANGED <<stakes, stake_block, rewards, nonces>>
    /\ UNCHANGED <<clock, transaction, optimizer, strategies, monitor>>

----------------------------------------------------------------------------
(* The operation layer: unstake_tokens(address, amount, blockchain, contract) *)

\* amount: None unstakes the whole position
UnstakeTokensAmounts == {None, 40 * ETH, 100 * ETH}

unstake_tokens(address, amount) ==
    LET staked == Get(stakes, address, 0)
        unstake_amount == IF amount = None THEN staked ELSE amount
        tx == MockTransaction(address, ContractAddr, 0, GAS_LIMIT,
                              get_next_nonce(address))
        ctx == confirm(tx)
    IN  /\ Get(nonces, address, 0) < MaxNonce
        /\ Len(transactions) < MaxTx
        /\ IF unstake_amount > staked
           THEN /\ result' = Res("unstake_tokens", address, unstake_amount,
                                 "insufficient_stake", 0)
                /\ UNCHANGED <<accounts, transactions, stakes, nonces>>
           ELSE IF address \notin DOMAIN stakes
           THEN /\ result' = Res("unstake_tokens", address, unstake_amount, "no_stake", 0)
                /\ UNCHANGED <<accounts, transactions, stakes, nonces>>
           ELSE IF address \notin DOMAIN accounts
           THEN /\ result' = Res("unstake_tokens", address, unstake_amount, "not_found", 0)
                /\ UNCHANGED <<accounts, transactions, stakes, nonces>>
           ELSE IF post_init(tx) # "none"
           THEN /\ nonces' = next_nonces(address)
                /\ result' = Res("unstake_tokens", address, unstake_amount,
                                 post_init(tx), 0)
                /\ UNCHANGED <<accounts, transactions, stakes>>
           ELSE \* contract.unstake, then blockchain.apply_transaction(tx) on the
                \* transaction contract.unstake has already applied; it is
                \* stored under the same hash
                /\ nonces' = next_nonces(address)
                /\ accounts' = applied(refunded(applied(accounts, ctx), address,
                                                unstake_amount), ctx)
                /\ transactions' = stored(ctx)
                /\ stakes' = staked_less(address, unstake_amount)
                /\ result' = Res("unstake_tokens", address, unstake_amount, "none",
                                 get_gas_cost(ctx))
        /\ UNCHANGED <<gas_price, current_block, stake_block, rewards, apr, previous_apr>>
        /\ UNCHANGED <<clock, transaction, optimizer, strategies, monitor>>

----------------------------------------------------------------------------
(* The state after MockBlockchainState() and MockStakingContract(blockchain) *)

\* no CompoundDecision has been returned yet
NoDecision == [should_compound |-> FALSE, reason |-> "none"]

Init ==
    /\ accounts = Put(EmptyDict, ContractAddr, Account(ContractBalance))
    /\ transactions = << >>
    /\ gas_price = DefaultGasPrice
    /\ current_block = 0
    /\ stakes = EmptyDict
    /\ stake_block = EmptyDict
    /\ rewards = EmptyDict
    /\ nonces = EmptyDict
    /\ apr = DefaultApr
    /\ previous_apr = DefaultApr
    /\ now = 0
    /\ last_block_time = 0
    /\ transaction = NoTransaction
    /\ price_history = << >>
    /\ last_check = None
    /\ favorable = FALSE
    /\ last_compound = None
    /\ recent_gas_prices = << >>
    /\ evaluations = 0
    /\ decision = NoDecision
    /\ gas_percentile = default_gas_percentile
    /\ compound_history = << >>
    /\ monitor_last_check = None
    /\ returned = "none"
    /\ arguments = NoArguments
    /\ result = [op |-> "init", addr |-> ContractAddr, amount |-> 0, err |-> "none",
                 gas_cost |-> 0, pre_balance |-> 0, pre_staked |-> 0]

\* the staking contract over its ledger
Next ==
    \/ \E a \in Stakers, b \in InitialBalances : create_account(a, b)
    \/ \E p \in ContractGasPrices : set_gas_price(p)
    \/ mine_block
    \/ \E a \in Stakers, x \in StakeAmounts : stake(a, x)
    \/ \E a \in Stakers, x \in UnstakeAmounts : unstake(a, x)
    \/ \E a \in Stakers, x \in RewardAmounts : add_rewards(a, x)
    \/ \E a \in Stakers : claim_rewards(a)
    \/ \E a \in Stakers : compound(a)

Spec == Init /\ [][Next]_vars

\* the ledger on its own: accounts, transfers and directly applied transactions
NextLedger ==
    \/ \E a \in Users, b \in InitialBalances : create_account(a, b)
    \/ \E p \in GasPrices : set_gas_price(p)
    \/ mine_block
    \/ \E a \in Users, b \in Users, x \in TransferAmounts : transfer(a, b, x)
    \/ \E a \in Users, b \in Users, x \in TransferAmounts : apply_transaction(a, b, x)

SpecLedger == Init /\ [][NextLedger]_vars

\* one transaction object: constructed, then confirmed any number of times
NextTx ==
    \/ \E p \in GasPrices : set_gas_price(p)
    \/ \E a \in Users, b \in Addrs, x \in TxValues : new_transaction(a, b, x)
    \/ \E ok \in BOOLEAN, e \in TxErrors : confirm_transaction(ok, e)

SpecTx == Init /\ [][NextTx]_vars

\* the gas optimizer sampling the ledger's gas price as time passes
NextOptimizer ==
    \/ \E p \in GasPrices : set_gas_price(p)
    \/ \E dt \in TimeSteps : advance_time(dt)
    \/ check_gas_price

SpecOptimizer == Init /\ [][NextOptimizer]_vars

\* the three strategies evaluated as gas price and ledger time change
NextStrategy ==
    \/ \E p \in GasPrices : set_gas_price(p)
    \/ \E dt \in TimeSteps : advance_time(dt)
    \/ \E r \in PositionRewards : ThresholdStrategy_should_compound(r)
    \/ \E r \in PositionRewards : TimeBasedStrategy_should_compound(r)
    \/ \E r \in PositionRewards : GasOptimizedStrategy_should_compound(r)

SpecStrategy == Init /\ [][NextStrategy]_vars

\* gas-optimized strategies constructed with every percentile and evaluated
NextPercentile ==
    \/ \E p \in GasPrices : set_gas_price(p)
    \/ \E percentile \in GasPercentiles : GasOptimizedStrategy_init(percentile)
    \/ \E r \in PositionRewards : GasOptimizedStrategy_should_compound(r)

SpecPercentile == Init /\ [][NextPercentile]_vars

\* the monitor polling rewards as rewards, gas price and ledger time change
NextMonitor ==
    \/ \E a \in Stakers, x \in RewardAmounts : add_rewards(a, x)
    \/ \E p \in ContractGasPrices : set_gas_price(p)
    \/ \E dt \in TimeSteps : advance_time(dt)
    \/ \E a \in Users : check_rewards(a)

SpecMonitor == Init /\ [][NextMonitor]_vars

\* the monitor compounding for staked accounts
NextCompound ==
    \/ \E a \in Users, b \in MonitorBalances : create_account(a, b)
    \/ \E a \in Users, x \in MonitorStakes : stake(a, x)
    \/ \E a \in Users, x \in RewardAmounts : add_rewards(a, x)
    \/ \E p \in MonitorGasPrices : set_gas_price(p)
    \/ \E a \in Users, m \in MinRewardsOverrides, g \in MaxGasPriceOverrides :
          execute_compound(a, m, g)

SpecCompound == Init /\ [][NextCompound]_vars

\* staking through the contract and unstaking through the operation layer
NextOperations ==
    \/ \E a \in Stakers, b \in InitialBalances : create_account(a, b)
    \/ \E p \in ContractGasPrices : set_gas_price(p)
    \/ \E a \in Stakers, x \in StakeAmounts : stake(a, x)
    \/ \E a \in Stakers, x \in UnstakeTokensAmounts : unstake_tokens(a, x)

SpecOperations == Init /\ [][NextOperations]_vars

\* a staked position accruing rewards while the APR is changed
NextApr ==
    \/ \E a \in Stakers, b \in InitialBalances : create_account(a, b)
    \/ mine_block
    \/ \E a \in Stakers, x \in StakeAmounts : stake(a, x)
    \/ \E new_apr \in AprValues : set_apr(new_apr)

SpecApr == Init /\ [][NextApr]_vars

TypeOK ==
    /\ DOMAIN accounts \subseteq Addrs
    /\ ContractAddr \in DOMAIN accounts
    /\ Len(transactions) <= MaxTx
    /\ current_block \in 0..MaxBlock
    /\ \A a \in DOMAIN stakes : stakes[a] > 0

----------------------------------------------------------------------------
(* Properties *)

ContractOps == {"stake", "unstake", "claim_rewards", "compound"}
Returned(r, op) == r.op = op /\ r.err = "none"
Balance(accts, a) == accts[a].balance

\* C1: after any sequence of ledger and contract operations the balance of
\* every account, the contract's included, is >= 0.
C1_BalanceNeverNegative ==
    \A a \in DOMAIN accounts : accounts[a].balance >= 0

\* C2: a ledger transaction (transfer or apply_transaction) whose sender has
\* balance < value + gas_cost is rejected with an insufficient-funds error
\* and nothing changes: no balance, no nonce, no account, no stored
\* transaction.
C2_InsufficientFundsRejected ==
    [][\A from \in Users, value \in TransferAmounts :
         LET cost == (ledger_gas_limit * gas_price) \div GasDivisor
         IN  ( /\ result'.op \in {"transfer", "apply_transaction"}
               /\ result'.addr = from /\ result'.amount = value
               /\ from \in DOMAIN accounts
               /\ result'.err # "not_found"
               /\ accounts[from].balance < value + cost )
             => ( /\ result'.err = "insufficient_balance"
                  /\ UNCHANGED <<accounts, transactions>> )]_vars

\* C3: a contract operation (stake, unstake, claim_rewards, compound) that
\* ends in an error leaves balances, stakes, stored rewards, stake blocks,
\* nonce counters and stored transactions as they were, at every gas price.
C3_FailedOperationChangesNothing ==
    [][(result'.op \in ContractOps /\ result'.err # "none")
         => UNCHANGED <<accounts, transactions, stakes, stake_block, rewards, nonces>>]_vars

C5_StakeThenUnstake ==
    [][( /\ Returned(result, "stake")
         /\ Returned(result', "unstake")
         /\ result'.addr = result.addr
         /\ result'.amount <= result.amount )
       => ( /\ get_stake(result.addr)'
                 = result.pre_staked + result.amount - result'.amount
            /\ Balance(accounts', result.addr)
                 = result.pre_balance - result.amount + result'.amount
                   - (result.gas_cost + result'.gas_cost) )]_vars

\* C5 witness: a full unstake has returned right after the stake of the same
\* amount: the two transactions are the stored ones, no stake is left
C5_Witness ==
    /\ Returned(result, "unstake")
    /\ result.pre_staked = result.amount
    /\ result.pre_balance >= result.gas_cost
    /\ result.addr \notin DOMAIN stakes
    /\ Len(transactions) = 2
    /\ transactions[1].from_address = result.addr
    /\ transactions[1].value = result.amount
    /\ transactions[2].from_address = result.addr
    /\ transactions[2].value = 0
    /\ transactions[2].nonce = transactions[1].nonce + 1

\* C6: the ledger nonce of a (Account.nonce) counts the transactions sent
\* from a: every transfer, stake, unstake or compound of a that returns
\* increases it by exactly 1, and nothing else changes it.
C6_NonceCountsSentTransactions ==
    [][\A a \in DOMAIN accounts :
         accounts'[a].nonce =
            IF /\ result'.op \in {"transfer", "stake", "unstake", "compound"}
               /\ result'.err = "none" /\ result'.addr = a
            THEN accounts[a].nonce + 1
            ELSE accounts[a].nonce]_vars

\* C7: compound(a) called twice in succession with no block mined in
\* between: once the first call has returned, the second fails with
\* 'No rewards to compound'.
C7_SecondCompoundFails ==
    [][( /\ Returned(result, "compound")
         /\ result'.op = "compound"
         /\ result'.addr = result.addr )
       => result'.err = "no_rewards"]_vars

\* C8: immediately after a successful claim_rewards(a), get_rewards(a) is 0,
\* whether the rewards were added explicitly or accrued over mined blocks.
C8_ClaimZeroesRewards ==
    Returned(result, "claim_rewards") => get_rewards(result.addr) = 0

\* C9: a successful claim_rewards(a) of r > 0 decreases the contract's
\* balance by exactly r and increases balance[a] by r minus the gas cost of
\* the claim transaction.
C9_ClaimPaysRewardsMinusGas ==
    [][\A a \in Stakers :
         (Returned(result', "claim_rewards") /\ result'.addr = a)
         => ( /\ Balance(accounts', ContractAddr)
                   = Balance(accounts, ContractAddr) - get_rewards(a)
              /\ Balance(accounts', a)
                   = Balance(accounts, a) + get_rewards(a) - result'.gas_cost )]_vars

\* the rewards of a staked address by the formula of the specification,
\* rounded down to the model's unit
RewardsFormula(a) ==
    Get(rewards, a, 0)
    + (stakes[a] * apr * (current_block - stake_block[a]))
         \div (AprScale * blocks_per_year)

\* one block's accrual on the stake of a is at least one unit of the model
Visible(a) == stakes[a] * apr >= AprScale * blocks_per_year

\* C10: for a staked address a, get_rewards(a) = base_rewards + staked * apr
\* * (current_block - stake_block) / 2,628,000, computed on demand: mine_block
\* changes no contract state, never lowers get_rewards(a), and raises it when
\* stake > 0 and apr > 0 (checked where one block's accrual reaches the
\* model's unit, the micro-ETH, below which the rounding hides it).
C10_RewardsAccrueLazily ==
    [][\A a \in DOMAIN stakes :
         /\ get_rewards(a) = RewardsFormula(a)
         /\ result'.op = "mine_block"
            => ( /\ UNCHANGED contract
                 /\ get_rewards(a)' >= get_rewards(a)
                 /\ (apr > 0 /\ Visible(a)) => get_rewards(a)' > get_rewards(a) )]_vars

\* C10 witness: a block has been mined over a stake of a and the rewards of a
\* exceed the stored base rewards
C10_Witness ==
    /\ result.op = "mine_block"
    /\ \E a \in DOMAIN stakes :
         /\ current_block > stake_block[a]
         /\ get_rewards(a) > Get(rewards, a, 0)
         /\ get_rewards(a) = RewardsFormula(a)

\* the errors of unstake that report a missing or too small stake
InsufficientStakeErrors == {"no_stake", "insufficient_stake"}

\* C11: unstake(a, x) is rejected with an insufficient-stake error, stakes
\* and balances unchanged, whenever a has no stake entry or x > staked[a];
\* an unstake that returns lowers staked[a] by exactly x and removes the
\* entry when it reaches zero; no stake entry is ever zero or negative.
C11_UnstakeRejectsAndNeverNegative ==
    /\ [][\A a \in Stakers, x \in UnstakeAmounts :
            (result'.op = "unstake" /\ result'.addr = a /\ result'.amount = x)
            => ( /\ (a \notin DOMAIN stakes \/ x > get_stake(a))
                    => ( /\ result'.err \in InsufficientStakeErrors
                         /\ UNCHANGED <<stakes, accounts>> )
                 /\ result'.err = "none"
                    => ( /\ get_stake(a)' = get_stake(a) - x
                         /\ get_stake(a)' = 0 => a \notin DOMAIN stakes' ) )]_vars
    /\ [](\A a \in DOMAIN stakes : stakes[a] > 0)

\* C11 witness: a partial unstake has returned and left a smaller stake
C11_Witness ==
    /\ Returned(result, "unstake")
    /\ result.amount > 0
    /\ result.pre_staked > result.amount
    /\ result.addr \in DOMAIN stakes
    /\ stakes[result.addr] = result.pre_staked - result.amount

\* C12: a contract operation given a non-positive amount is rejected:
\* unstake(a, x) with x <= 0 raises and changes neither staked[a] nor
\* balance[a], and no unstake ever increases a stake.
C12_NonPositiveUnstakeRejected ==
    [][\A a \in Stakers :
         (result'.op = "unstake" /\ result'.addr = a)
         => ( /\ result'.amount <= 0
                 => ( /\ result'.err # "none"
                      /\ get_stake(a)' = get_stake(a)
                      /\ a \in DOMAIN accounts
                         => Balance(accounts', a) = Balance(accounts, a) )
              /\ get_stake(a)' <= get_stake(a) )]_vars

\* the errors stake raises for an amount outside [min_stake, max_stake]
RangeErrors == {"min_stake", "max_stake"}

C14_TerminalStatusIsFinal ==
    [][/\ (result'.op = "MockTransaction" /\ result'.err = "none")
          => transaction'.status = "pending"
       /\ (result'.op = "confirm" /\ transaction.status = "pending")
          => transaction'.status \in {"success", "failed"}
       /\ (result'.op = "confirm" /\ transaction.status \in {"success", "failed"})
          => ( /\ transaction'.status = transaction.status
               /\ transaction'.gas_used = transaction.gas_used
               /\ transaction'.error = transaction.error )]_vars

\* C15: accounts come into existence only through create_account, which
\* fails and leaves the account unchanged when the address exists; a
\* transfer or apply_transaction naming an absent address fails with a
\* not-found error and creates no account; accounts are never deleted.
C15_AccountsOnlyByCreateAccount ==
    [][/\ DOMAIN accounts \subseteq DOMAIN accounts'
       /\ DOMAIN accounts' # DOMAIN accounts
          => (result'.op = "create_account" /\ result'.err = "none")
       /\ (result'.op = "create_account" /\ result'.addr \in DOMAIN accounts)
          => (result'.err = "exists" /\ UNCHANGED accounts)
       /\ ( /\ result'.op \in {"transfer", "apply_transaction"}
            /\ result'.addr \notin DOMAIN accounts )
          => (result'.err = "not_found" /\ UNCHANGED accounts)]_vars

\* the maximal runs <<i, j>> of consecutive samples of h at or below the
\* average of h
Runs(h) ==
    {r \in (1..Len(h)) \X (1..Len(h)) :
        /\ r[1] <= r[2]
        /\ \A k \in r[1]..r[2] : h[k].price * Len(h) <= sum_prices(h)
        /\ r[1] = 1 \/ h[r[1] - 1].price * Len(h) > sum_prices(h)
        /\ r[2] = Len(h) \/ h[r[2] + 1].price * Len(h) > sum_prices(h)}

\* the runs that span at least min_window_size minutes
QualifyingRuns(h) == {r \in Runs(h) : h[r[2]].time - h[r[1]].time >= min_window_size}

\* the average price of run r is lower than that of run q
RunLower(h, r, q) ==
    sum_prices(SubSeq(h, r[1], r[2])) * (q[2] - q[1] + 1)
      < sum_prices(SubSeq(h, q[1], q[2])) * (r[2] - r[1] + 1)

\* the qualifying runs of the lowest average price that start earliest
BestRuns(h) ==
    {r \in QualifyingRuns(h) :
        \A q \in QualifyingRuns(h) :
           /\ ~RunLower(h, q, r)
           /\ ~RunLower(h, r, q) => h[r[1]].time <= h[q[1]].time}

\* C16: check_gas_price records the current sample and returns true iff
\* exactly one sample is in the window, or the current price is <= the
\* window average and (no run of consecutive at-or-below-average samples
\* spans >= min_window_size minutes, or the current time lies inside the
\* qualifying run of the lowest average price, ties broken by the earliest
\* start); it returns false whenever the current price exceeds the average.
C16_CheckGasPriceDecision ==
    [][result'.op = "check_gas_price" =>
         LET h == price_history'
             n == Len(h)
             t == last_block_time
             price == gas_price
         IN  /\ n >= 1
             /\ h[n] = Sample(t, price)
             /\ favorable' <=>
                   \/ n = 1
                   \/ /\ price * n <= sum_prices(h)
                      /\ \/ QualifyingRuns(h) = {}
                         \/ \E r \in BestRuns(h) :
                               h[r[1]].time <= t /\ t <= h[r[2]].time
             /\ price * n > sum_prices(h) => ~favorable']_vars

\* C16 witness: the price is at or below the average of five samples with
\* two qualifying runs of the same average, the current time lies in the
\* later one, and the check has returned false: the earlier run was chosen
C16_Witness ==
    /\ result.op = "check_gas_price"
    /\ Len(price_history) = 5
    /\ result.amount * 5 <= sum_prices(price_history)
    /\ \E r, q \in QualifyingRuns(price_history) :
          /\ r[1] < q[1]
          /\ ~RunLower(price_history, r, q) /\ ~RunLower(price_history, q, r)
          /\ price_history[q[2]].time = last_block_time
    /\ ~favorable

\* C17: after check_gas_price at ledger time t the history ends with the
\* sample just recorded and holds no sample older than t - window_size;
\* the samples removed are exactly the older ones (what is kept is the old
\* history from its first sample inside the window on, then the new
\* sample), and when every earlier sample is older than the window exactly
\* one sample remains.
C17_HistoryIsTrailingWindow ==
    [][result'.op = "check_gas_price" =>
         LET all == Append(price_history, Sample(last_block_time, gas_price))
             h == price_history'
             oldest == last_block_time - window_size
             dropped == Len(all) - Len(h)
         IN  /\ Len(h) >= 1
             /\ h[Len(h)] = Sample(last_block_time, gas_price)
             /\ \A k \in 1..Len(h) : h[k].time >= oldest
             /\ dropped >= 0
             /\ h = SubSeq(all, dropped + 1, Len(all))
             /\ \A k \in 1..dropped : all[k].time < oldest
             /\ (\A k \in 1..Len(price_history) : price_history[k].time < oldest)
                => Len(h) = 1]_vars

\* C17 witness: a check at the last minute has kept, ahead of the sample it
\* recorded, a sample that is exactly window_size minutes old
C17_Witness ==
    /\ result.op = "check_gas_price"
    /\ last_check = last_block_time
    /\ Len(price_history) >= 2
    /\ price_history[1].time = last_block_time - window_size
    /\ last_block_time = MaxTime

\* C18: ThresholdStrategy.should_compound approves iff gas_price <=
\* max_gas_price and rewards >= min_reward_threshold; at gas_price >
\* max_gas_price it refuses with the gas reason whatever the rewards, and
\* at an acceptable gas price with rewards < min_reward_threshold it
\* refuses with a reason containing 'below threshold'.
C18_ThresholdDecision ==
    [][\A r \in PositionRewards :
         (result'.op = "ThresholdStrategy.should_compound" /\ result'.amount = r)
         => ( /\ decision'.should_compound
                   <=> (gas_price <= max_gas_price /\ r >= min_reward_threshold)
              /\ gas_price > max_gas_price
                   => decision' = CompoundDecision(FALSE, "Gas price exceeds threshold")
              /\ (gas_price <= max_gas_price /\ r < min_reward_threshold)
                   => decision' = CompoundDecision(FALSE, "Rewards below threshold") )]_vars

\* C18 witness: the threshold strategy has approved at a gas price equal to
\* max_gas_price with rewards equal to min_reward_threshold
C18_Witness ==
    /\ result.op = "ThresholdStrategy.should_compound"
    /\ result.amount = min_reward_threshold
    /\ gas_price = max_gas_price
    /\ decision.should_compound

\* C19: a TimeBasedStrategy evaluated with sufficient rewards and
\* acceptable gas approves the first time; afterwards it approves iff at
\* least compound_interval of ledger time has passed since the last
\* approval, and otherwise refuses with a waiting reason; two approvals
\* are at least compound_interval apart; a refusal (gas, rewards or
\* waiting) never changes last_compound.
C19_TimeBasedDecision ==
    [][\A r \in PositionRewards :
         (result'.op = "TimeBasedStrategy.should_compound" /\ result'.amount = r)
         => ( /\ (r >= min_reward_threshold /\ gas_price <= max_gas_price)
                 => ( /\ last_compound = None => decision'.should_compound
                      /\ last_compound # None
                         => ( /\ decision'.should_compound
                                   <=> last_block_time - last_compound >= compound_interval
                              /\ ~decision'.should_compound
                                   => decision'.reason
                                        = "Waiting until next compound interval" ) )
              /\ decision'.should_compound
                 => ( /\ last_compound' = last_block_time
                      /\ last_compound # None
                         => last_compound' - last_compound >= compound_interval )
              /\ ~decision'.should_compound => UNCHANGED last_compound )]_vars

\* C19 witness: after an approval and some ledger time short of
\* compound_interval, the strategy has refused with the waiting reason
C19_Witness ==
    /\ result.op = "TimeBasedStrategy.should_compound"
    /\ decision = CompoundDecision(FALSE, "Waiting until next compound interval")
    /\ last_compound # None
    /\ last_block_time > last_compound
    /\ last_block_time - last_compound < compound_interval

\* C20: GasOptimizedStrategy keeps at most gas_window gas-price samples,
\* the most recent ones in arrival order (the oldest is evicted first);
\* each of its first gas_window - 1 evaluations refuses with the
\* building-history reason whatever the rewards and the gas price, and no
\* evaluation before the gas_window-th approves.
C20_GasHistoryWindow ==
    [][result'.op = "GasOptimizedStrategy.should_compound" =>
         LET all == Append(recent_gas_prices, gas_price)
             kept == IF evaluations' < gas_window THEN evaluations' ELSE gas_window
         IN  /\ Len(recent_gas_prices') = kept
             /\ recent_gas_prices' = SubSeq(all, Len(all) - kept + 1, Len(all))
             /\ evaluations' < gas_window
                  => decision' = CompoundDecision(FALSE, "Building gas price history")
             /\ decision'.should_compound => evaluations' >= gas_window]_vars

\* C20 witness: the gas_window-th evaluation has approved
C20_Witness ==
    /\ result.op = "GasOptimizedStrategy.should_compound"
    /\ evaluations = gas_window
    /\ Len(recent_gas_prices) = gas_window
    /\ decision.should_compound

\* C21: for every gas_percentile in [0, 100] the constructor accepts, an
\* evaluation of GasOptimizedStrategy on a full window returns a decision
\* without raising: it refuses when rewards < min_reward_threshold, and
\* otherwise approves iff the current gas price <= min(the value at the
\* gas_percentile position of the sorted window, max_gas_price).
C21_PercentileDecision ==
    [][\A r \in PositionRewards :
         ( /\ result'.op = "GasOptimizedStrategy.should_compound"
           /\ result'.amount = r
           /\ Len(recent_gas_prices') = gas_window )
         => ( /\ result'.err = "none"
              /\ r < min_reward_threshold => ~decision'.should_compound
              /\ r >= min_reward_threshold
                 => LET window == sorted(recent_gas_prices')
                        at_percentile == window[(Len(window) * gas_percentile) \div 100 + 1]
                    IN  decision'.should_compound
                          <=> gas_price <= Min(at_percentile, max_gas_price) )]_vars

\* C22: check_rewards(a) returns true iff get_rewards(a) >= the strategy's
\* min_reward_threshold and the gas optimizer, consulted on the current
\* sample, judges the gas price favorable; it changes no stake, reward,
\* balance, nonce or compound history, only the optimizer's history and
\* the two last_check times.
C22_CheckRewardsDecision ==
    [][\A a \in Users :
         (result'.op = "check_rewards" /\ result'.addr = a)
         => ( /\ returned' \in {"True", "False"}
              /\ returned' = "True"
                   <=> (get_rewards(a) >= min_reward_threshold /\ favorable')
              /\ get_rewards(a) >= min_reward_threshold
                   => ( /\ price_history' # << >>
                        /\ price_history'[Len(price_history')]
                             = Sample(last_block_time, gas_price)
                        /\ favorable' = in_optimal_window(price_history')
                        /\ last_check' = last_block_time )
              /\ monitor_last_check' = last_block_time
              /\ UNCHANGED <<ledger, contract, compound_history>> )]_vars

\* C22 witness: rewards reach the threshold and check_rewards has returned
\* false on the optimizer's judgement of a history of several samples
C22_Witness ==
    /\ result.op = "check_rewards"
    /\ get_rewards(result.addr) >= min_reward_threshold
    /\ Len(price_history) >= 2
    /\ ~favorable
    /\ returned = "False"

\* C23: execute_compound returns None without raising, and changes no
\* stake, reward, balance, nonce or compound history, whenever rewards are
\* below the effective minimum (the override if given, else the strategy's
\* min_reward_threshold) or the ledger gas price in wei is above the
\* effective maximum (the override if given, else the strategy's
\* max_gas_price); the contract's state changes only when both are met.
C23_ExecuteCompoundRefusals ==
    [][\A a \in Users :
         (result'.op = "execute_compound" /\ result'.addr = a)
         => LET r == get_rewards(a)
                min == IF arguments'.min_rewards = None THEN min_reward_threshold
                       ELSE arguments'.min_rewards
                above == IF arguments'.max_gas_price = None
                         THEN gas_price > max_gas_price \div WeiPerGwei
                         ELSE gas_price > arguments'.max_gas_price
            IN  /\ returned' \in {"None", "success"}
                /\ (r < min \/ above)
                     => ( /\ returned' = "None"
                          /\ UNCHANGED <<ledger, contract, compound_history>> )
                /\ ~UNCHANGED contract => (r >= min /\ ~above)]_vars

\* C23 witness: with a stake and sufficient rewards, execute_compound given
\* a maximum of 20 gwei has refused at a ledger price above it
C23_Witness ==
    /\ result.op = "execute_compound"
    /\ result.addr \in DOMAIN stakes
    /\ get_rewards(result.addr) >= min_reward_threshold
    /\ arguments = [min_rewards |-> None, max_gas_price |-> 20]
    /\ gas_price > 20
    /\ returned = "None"

\* C24: check_rewards or execute_compound called for an address that has
\* no ledger account propagates a not-found error (KeyError) to the caller
\* instead of returning False or None.
C24_MissingAccountPropagates ==
    [][\A a \in Users :
         ( /\ result'.op \in {"check_rewards", "execute_compound"}
           /\ result'.addr = a
           /\ a \notin DOMAIN accounts )
         => returned' = "KeyError"]_vars

\* the compound history of an address holds one more compound, of rewards
\* r at gas price g, than before
OneMoreCompound(before, after, r, g) ==
    /\ after.total_compounds = before.total_compounds + 1
    /\ after.total_rewards_compounded = before.total_rewards_compounded + r
    /\ after.total_gas_cost = before.total_gas_cost + g * 100000
    /\ after.average_gas_cost.num * after.total_compounds
         = after.total_gas_cost * after.average_gas_cost.den

\* C25: get_compound_stats(a) is all zero at the start; an
\* execute_compound(a) that compounds (the stake of a grows by its rewards
\* r) adds 1 to total_compounds, r to total_rewards_compounded and
\* gas_price * 100000 to total_gas_cost, with average_gas_cost =
\* total_gas_cost / total_compounds; every other step, a failed call or a
\* compound of another address included, leaves the statistics of a as
\* they were.
C25_CompoundStats ==
    /\ \A a \in Users :
          get_compound_stats(a) =
             [total_compounds |-> 0, total_rewards_compounded |-> 0,
              total_gas_cost |-> 0, average_gas_cost |-> [num |-> 0, den |-> 1]]
    /\ [][\A a \in Users :
            IF /\ result'.op = "execute_compound" /\ result'.addr = a
               /\ Get(stakes', a, 0) = Get(stakes, a, 0) + get_rewards(a)
               /\ get_rewards(a) > 0
            THEN OneMoreCompound(get_compound_stats(a), get_compound_stats(a)',
                                 get_rewards(a), gas_price)
            ELSE get_compound_stats(a)' = get_compound_stats(a)]_vars

\* C25 witness: after two compounds of one address and one of the other,
\* an execute_compound has failed
C25_Witness ==
    /\ result.op = "execute_compound"
    /\ returned = "None"
    /\ \E a, b \in Users :
          /\ a # b
          /\ get_compound_stats(a).total_compounds = 2
          /\ get_compound_stats(a).total_gas_cost > 0
          /\ get_compound_stats(b).total_compounds = 1

\* C28: for every ledger gas price and position, when the monitor's
\* ThresholdStrategy approves, execute_compound called with the strategy's
\* default thresholds in that state does not refuse on its gas-price
\* check, and when the strategy refuses on gas, execute_compound refuses.
C28_SameGasQuantity ==
    [][\A a \in Users :
         ( /\ result'.op = "execute_compound" /\ result'.addr = a
           /\ arguments' = NoArguments )
         => LET d == ThresholdStrategy_decision(get_rewards(a))
            IN  /\ d.should_compound => result'.err # "gas_price_too_high"
                /\ d.reason = "Gas price exceeds threshold" => returned' = "None"]_vars

\* the sum of the ledger balances of the addresses in S
RECURSIVE SumBalances(_, _)
SumBalances(accts, S) ==
    IF S = {} THEN 0
    ELSE LET a == CHOOSE x \in S : TRUE
         IN  accts[a].balance + SumBalances(accts, S \ {a})
TotalBalance(accts) == SumBalances(accts, DOMAIN accts)

\* C26: a successful stake(a, x) raises the contract account's ledger
\* balance by x and a successful unstake(a, x) lowers it by x, so either
\* lowers the sum of all ledger balances (users plus contract) by exactly
\* the gas burned and never raises it.
C26_StakedValueConserved ==
    [][(result'.op \in {"stake", "unstake"} /\ result'.err = "none")
         => ( /\ result'.op = "stake"
                   => Balance(accounts', ContractAddr)
                        = Balance(accounts, ContractAddr) + result'.amount
              /\ result'.op = "unstake"
                   => Balance(accounts', ContractAddr)
                        = Balance(accounts, ContractAddr) - result'.amount
              /\ TotalBalance(accounts') = TotalBalance(accounts) - result'.gas_cost
              /\ TotalBalance(accounts') <= TotalBalance(accounts) )]_vars

\* C27: with the APR fixed, get_rewards(a) is never lowered by a stake, an
\* unstake or a mine_block, by a or by another address: a further stake
\* by a staked address and a partial or full unstake keep the rewards
\* accrued over the blocks elapsed so far.
C27_RewardsNeverLowered ==
    [][(result'.op \in {"stake", "unstake", "mine_block"} /\ apr' = apr)
         => \A a \in Users : get_rewards(a)' >= get_rewards(a)]_vars

\* C29: a successful unstake_tokens(a, x) has the effect of
\* contract.unstake(a, x): staked[a] falls by x and the balance of a
\* changes by +x minus exactly one gas cost, the unstake transaction being
\* applied to the ledger exactly once.
C29_UnstakeTokensAppliesOnce ==
    [][\A a \in Users :
         (result'.op = "unstake_tokens" /\ result'.addr = a /\ result'.err = "none")
         => LET x == result'.amount
            IN  /\ Get(stakes', a, 0) = Get(stakes, a, 0) - x
                /\ Balance(accounts', a)
                     = Balance(accounts, a) + x - result'.gas_cost]_vars

\* C30: set_apr(new_apr) changes only apr and previous_apr, previous_apr
\* becoming the APR in force before the call; for every address a,
\* get_rewards(a) right after the call equals get_rewards(a) right before
\* it: rewards accrued over elapsed blocks are not re-priced.
C30_SetAprKeepsAccruedRewards ==
    [][result'.op = "set_apr"
         => ( /\ apr' = result'.amount
              /\ previous_apr' = apr
              /\ UNCHANGED <<ledger, stakes, stake_block, rewards, nonces>>
              /\ \A a \in Users : get_rewards(a)' = get_rewards(a) )]_vars

====
